---- MODULE Spec2Model ----
(***************************************************************************)
(* OutSource backend: friend requests / friendships, circles and events.  *)
(*                                                                         *)
(* The store is the relational database behind the SQLAlchemy sessions.    *)
(* Every HTTP request runs its service method in a worker thread with a    *)
(* session of its own (database.get_db); every repository call is a        *)
(* statement or a commit of its own, so a service method is a sequence of  *)
(* steps and the steps of concurrent requests interleave.  A step reads    *)
(* the committed state of the store; a write step is one commit.           *)
(***************************************************************************)
EXTENDS Integers, FiniteSets, Sequences, TLC

(* ---------------------------- bounds ----------------------------------- *)
NumUsers == 2
MaxReqId == 3
MaxCircleId == 1
MaxEventId == 1
MaxTime == 2
MaxCalls == 3
DeepCalls == 5
EventCalls == 2
MaxNow == 1

(* ---------------------------- domains ---------------------------------- *)
Workers == {"w1", "w2"}
Users == 1..NumUsers
UserIds == 1..(NumUsers + 1)
ReqIds == 1..MaxReqId
CircleIds == 1..MaxCircleId
EventIds == 1..MaxEventId
Times == 0..MaxTime
Engines == {"mysql", "sqlite"}
Names == {"n1", "n2"}
Descriptions == {"null", "d1"}
(* the name and description a create request carries *)
NewNames == {"n1"}
EventState == {"upcoming", "passed"}
StateInputs == EventState \cup {"later"}
None == [id |-> 0]

VARIABLES
    engine,
    friends, friend_requests, friend_requests_seq,
    circles, circle_membership, circles_seq,
    events, event_ownership, events_seq, now,
    pc, call, loc, response, calls, budget

storeVars == <<friends, friend_requests, friend_requests_seq,
               circles, circle_membership, circles_seq,
               events, event_ownership, events_seq>>
friendVars == <<friends, friend_requests, friend_requests_seq>>
circleVars == <<circles, circle_membership, circles_seq>>
eventVars == <<events, event_ownership, events_seq>>
vars == <<engine, friends, friend_requests, friend_requests_seq,
          circles, circle_membership, circles_seq,
          events, event_ownership, events_seq, now,
          pc, call, loc, response, calls, budget>>

(* ---------------------------- responses -------------------------------- *)
Ok(code, msg) == [status |-> code, detail |-> msg, body |-> None]
OkBody(code, msg, dto) == [status |-> code, detail |-> msg, body |-> dto]
HTTPException(code, msg) == [status |-> code, detail |-> msg, body |-> None]
(* an exception no handler catches: the response is a 500 *)
IntegrityError(constraint) == [status |-> 500, detail |-> constraint, body |-> None]
AttributeError(detail) == [status |-> 500, detail |-> detail, body |-> None]
StaleDataError == [status |-> 500, detail |-> "StaleDataError", body |-> None]

Call(op, caller, target, user, patch) ==
    [op |-> op, caller |-> caller, target |-> target, user |-> user, patch |-> patch]
NoCall == Call("", 0, 0, 0, None)
NoLoc == [existing_request |-> None, friend_request |-> None,
          circle |-> None, event |-> None, dirty |-> None]
NoResponse == [call |-> NoCall, status |-> 0, detail |-> "", body |-> None]

Max(S) == IF S = {} THEN 0 ELSE CHOOSE m \in S : \A x \in S : x <= m

(* autoincrement primary key: InnoDB hands out a counter that never goes   *)
(* back; SQLite (no AUTOINCREMENT keyword) hands out max(rowid) + 1.       *)
NewId(rows, seq) ==
    IF engine = "sqlite" THEN Max({r.id : r \in rows}) + 1 ELSE seq
NewSeq(rows, seq) ==
    IF engine = "sqlite" THEN seq ELSE seq + 1

(* ---------------------------- worker steps ----------------------------- *)
(* A free worker thread takes the next HTTP request; budget bounds the    *)
(* number of requests of a run.                                            *)
Accept(w) ==
    /\ pc[w] = "idle"
    /\ calls < budget
    /\ calls' = calls + 1

(* Worker w is at the statement named label of the request it serves. *)
At(w, label) ==
    /\ pc[w] = label
    /\ UNCHANGED calls

(* The request of worker w, call c, goes on to its next statement with     *)
(* locals l; no response is sent by this step.                             *)
Goto(w, c, l, next) ==
    /\ pc' = [pc EXCEPT ![w] = next]
    /\ call' = [call EXCEPT ![w] = c]
    /\ loc' = [loc EXCEPT ![w] = l]
    /\ response' = NoResponse
    /\ UNCHANGED <<engine, now, budget>>

(* The request ends: the response r of call c is the one sent by this      *)
(* step, and the worker thread is free for the next request.               *)
Return(w, c, r) ==
    /\ pc' = [pc EXCEPT ![w] = "idle"]
    /\ call' = [call EXCEPT ![w] = NoCall]
    /\ loc' = [loc EXCEPT ![w] = NoLoc]
    /\ response' = [call |-> c, status |-> r.status, detail |-> r.detail, body |-> r.body]
    /\ UNCHANGED <<engine, now, budget>>

Raise(w, c, r) ==
    /\ Return(w, c, r)
    /\ UNCHANGED storeVars

(* ======================= friend repositories =========================== *)
are_friends_as_stored(user1_id, user2_id) ==
    \E f \in friends : f[1] = user1_id /\ f[2] = user2_id

are_friends(user1_id, user2_id) ==
    \E f \in friends :
        \/ (f[1] = user1_id /\ f[2] = user2_id)
        \/ (f[1] = user2_id /\ f[2] = user1_id)

get_friends_stored_first(user_id) ==
    {f[2] : f \in {g \in friends : g[1] = user_id}}

get_friends_for_user(user_id) ==
    {f[2] : f \in {g \in friends : g[1] = user_id}}
        \cup {f[1] : f \in {g \in friends : g[2] = user_id /\ g[1] # user_id}}

get_request_either_way(outgoing_user_id, incoming_user_id) ==
    {r \in friend_requests :
        {r.outgoing_user_id, r.incoming_user_id} = {outgoing_user_id, incoming_user_id}}

get_request(outgoing_user_id, incoming_user_id) ==
    {r \in friend_requests :
        r.outgoing_user_id = outgoing_user_id /\ r.incoming_user_id = incoming_user_id}

get_by_id(request_id) == {r \in friend_requests : r.id = request_id}

(* get_incoming_requests without the filter on status *)
get_incoming_requests_any_status(user_id) ==
    {r \in friend_requests : r.incoming_user_id = user_id}

get_incoming_requests(user_id) ==
    {r \in friend_requests : r.incoming_user_id = user_id /\ r.status = "pending"}

get_outgoing_requests(user_id) ==
    {r \in friend_requests : r.outgoing_user_id = user_id /\ r.status = "pending"}

(* first(): one of the rows the query matches, or None *)
First(rows) == IF rows = {} THEN {None} ELSE rows

(* ======================= FriendRequestService ========================== *)
(* user_repository.get_by_id(recipient_id), the self check, are_friends *)
create_friend_request_to_anyone(w) ==
    /\ Accept(w)
    /\ \E current_user_id \in Users, recipient_id \in UserIds :
        LET c == Call("create_friend_request", current_user_id, recipient_id, 0, None)
        IN IF recipient_id \notin Users
             THEN Raise(w, c, HTTPException(404, "Recipient user not found"))
           ELSE IF are_friends(current_user_id, recipient_id)
             THEN Raise(w, c, HTTPException(400, "Already friends with this user"))
           ELSE Goto(w, c, NoLoc, "create_get_request") /\ UNCHANGED storeVars

create_friend_request(w) ==
    /\ Accept(w)
    /\ \E current_user_id \in Users, recipient_id \in UserIds :
        LET c == Call("create_friend_request", current_user_id, recipient_id, 0, None)
        IN IF recipient_id \notin Users
             THEN Raise(w, c, HTTPException(404, "Recipient user not found"))
           ELSE IF current_user_id = recipient_id
             THEN Raise(w, c, HTTPException(400, "Cannot send friend request to yourself"))
           ELSE IF are_friends(current_user_id, recipient_id)
             THEN Raise(w, c, HTTPException(400, "Already friends with this user"))
           ELSE Goto(w, c, NoLoc, "create_get_request") /\ UNCHANGED storeVars

create_get_request(w) ==
    /\ At(w, "create_get_request")
    /\ \E r \in First(get_request(call[w].caller, call[w].target)) :
          Goto(w, call[w], [loc[w] EXCEPT !.existing_request = r], "create_get_reverse")
    /\ UNCHANGED storeVars

create_get_reverse_unchecked(w) ==
    /\ At(w, "create_get_reverse")
    /\ IF loc[w].existing_request # None /\ loc[w].existing_request.status = "pending"
         THEN Raise(w, call[w], HTTPException(400, "Friend request already sent"))
         ELSE Goto(w, call[w], NoLoc, "create_request") /\ UNCHANGED storeVars

create_get_reverse(w) ==
    /\ At(w, "create_get_reverse")
    /\ \E reverse_request \in First(get_request(call[w].target, call[w].caller)) :
          IF loc[w].existing_request # None /\ loc[w].existing_request.status = "pending"
            THEN Raise(w, call[w], HTTPException(400, "Friend request already sent"))
          ELSE IF reverse_request # None /\ reverse_request.status = "pending"
            THEN Raise(w, call[w],
                       HTTPException(400, "This user has already sent you a friend request"))
          ELSE Goto(w, call[w], NoLoc, "create_request") /\ UNCHANGED storeVars

(* create_request on a table without unique_friend_request *)
create_request_unconstrained(w) ==
    /\ At(w, "create_request")
    /\ NewId(friend_requests, friend_requests_seq) <= MaxReqId
    /\ LET request == [id |-> NewId(friend_requests, friend_requests_seq),
                       outgoing_user_id |-> call[w].caller,
                       incoming_user_id |-> call[w].target,
                       status |-> "pending"]
       IN /\ friend_requests' = friend_requests \cup {request}
          /\ Return(w, call[w], OkBody(201, "created", request))
    /\ friend_requests_seq' = NewSeq(friend_requests, friend_requests_seq)
    /\ UNCHANGED <<friends, circleVars, eventVars>>

(* friend_request_repository.create_request: INSERT and commit; the        *)
(* unique_friend_request constraint rejects a second row for the pair.     *)
create_request(w) ==
    /\ At(w, "create_request")
    /\ IF get_request(call[w].caller, call[w].target) # {}
         THEN Raise(w, call[w], IntegrityError("unique_friend_request"))
       ELSE /\ NewId(friend_requests, friend_requests_seq) <= MaxReqId
            /\ LET request == [id |-> NewId(friend_requests, friend_requests_seq),
                               outgoing_user_id |-> call[w].caller,
                               incoming_user_id |-> call[w].target,
                               status |-> "pending"]
               IN /\ friend_requests' = friend_requests \cup {request}
                  /\ Return(w, call[w], OkBody(201, "created", request))
            /\ friend_requests_seq' = NewSeq(friend_requests, friend_requests_seq)
            /\ UNCHANGED <<friends, circleVars, eventVars>>

accept_friend_request_any_status(w) ==
    /\ Accept(w)
    /\ \E current_user_id \in Users, sender_id \in UserIds :
        LET c == Call("accept_friend_request", current_user_id, sender_id, 0, None)
        IN \E friend_request \in First(get_request(sender_id, current_user_id)) :
              IF friend_request = None
                THEN Raise(w, c, HTTPException(404, "Friend request not found"))
                ELSE /\ Goto(w, c, [NoLoc EXCEPT !.friend_request = friend_request],
                             "update_status")
                     /\ UNCHANGED storeVars

accept_friend_request(w) ==
    /\ Accept(w)
    /\ \E current_user_id \in Users, sender_id \in UserIds :
        LET c == Call("accept_friend_request", current_user_id, sender_id, 0, None)
        IN \E friend_request \in First(get_request(sender_id, current_user_id)) :
              IF friend_request = None
                THEN Raise(w, c, HTTPException(404, "Friend request not found"))
              ELSE IF friend_request.status # "pending"
                THEN Raise(w, c, HTTPException(400, "Friend request is not pending"))
              ELSE /\ Goto(w, c, [NoLoc EXCEPT !.friend_request = friend_request],
                           "update_status")
                   /\ UNCHANGED storeVars

(* friend_request_repository.update_status: the SELECT by id.  A missing   *)
(* row makes update_status return None and the caller goes on.             *)
update_status(w) ==
    /\ At(w, "update_status")
    /\ IF get_by_id(loc[w].friend_request.id) = {}
         THEN IF call[w].op = "accept_friend_request"
                THEN Goto(w, call[w], loc[w], "add_friendship")
                ELSE Return(w, call[w], Ok(200, "Friend request rejected"))
         ELSE Goto(w, call[w], loc[w], "update_status_commit")
    /\ UNCHANGED storeVars

(* the UPDATE ... WHERE id = ? at commit; no matching row is a             *)
(* StaleDataError of the unit of work.                                     *)
update_status_commit(w) ==
    /\ At(w, "update_status_commit")
    /\ LET status == IF call[w].op = "accept_friend_request" THEN "accepted" ELSE "rejected"
           id == loc[w].friend_request.id
       IN IF get_by_id(id) = {}
            THEN Raise(w, call[w], StaleDataError)
            ELSE /\ friend_requests' =
                        {IF r.id = id THEN [r EXCEPT !.status = status] ELSE r :
                            r \in friend_requests}
                 /\ IF call[w].op = "accept_friend_request"
                      THEN Goto(w, call[w], loc[w], "add_friendship")
                      ELSE Return(w, call[w], Ok(200, "Friend request rejected"))
                 /\ UNCHANGED <<friends, friend_requests_seq, circleVars, eventVars>>

(* friend_repository.add_friendship: INSERT (user1_id, user2_id) and       *)
(* commit; unique_friendship is on the ordered pair.                       *)
add_friendship(w) ==
    /\ At(w, "add_friendship")
    /\ LET row == <<call[w].target, call[w].caller>>
       IN IF row \in friends
            THEN Raise(w, call[w], IntegrityError("unique_friendship"))
            ELSE /\ friends' = friends \cup {row}
                 /\ Return(w, call[w], Ok(200, "Friend request accepted"))
                 /\ UNCHANGED <<friend_requests, friend_requests_seq,
                                circleVars, eventVars>>

reject_friend_request(w) ==
    /\ Accept(w)
    /\ \E current_user_id \in Users, request_id \in ReqIds :
        LET c == Call("reject_friend_request", current_user_id, request_id, 0, None)
        IN \E friend_request \in First(get_by_id(request_id)) :
              IF friend_request = None
                THEN Raise(w, c, HTTPException(404, "Friend request not found"))
              ELSE IF friend_request.incoming_user_id # current_user_id
                THEN Raise(w, c, HTTPException(403, "You can only reject requests sent to you"))
              ELSE IF friend_request.status # "pending"
                THEN Raise(w, c, HTTPException(400, "Friend request is not pending"))
              ELSE /\ Goto(w, c, [NoLoc EXCEPT !.friend_request = friend_request],
                           "update_status")
                   /\ UNCHANGED storeVars

cancel_friend_request(w) ==
    /\ Accept(w)
    /\ \E current_user_id \in Users, request_id \in ReqIds :
        LET c == Call("cancel_friend_request", current_user_id, request_id, 0, None)
        IN \E friend_request \in First(get_by_id(request_id)) :
              IF friend_request = None
                THEN Raise(w, c, HTTPException(404, "Friend request not found"))
              ELSE IF friend_request.outgoing_user_id # current_user_id
                THEN Raise(w, c, HTTPException(403, "You can only cancel requests you sent"))
              ELSE IF friend_request.status # "pending"
                THEN Raise(w, c, HTTPException(400, "Friend request is not pending"))
              ELSE /\ Goto(w, c, NoLoc, "delete_request")
                   /\ UNCHANGED storeVars

(* friend_request_repository.delete_request: the row, if still there, is   *)
(* deleted; the boolean it returns is ignored by the service.              *)
delete_request_marked(w) ==
    /\ At(w, "delete_request")
    /\ friend_requests' =
           {IF r.id = call[w].target THEN [r EXCEPT !.status = "rejected"] ELSE r :
               r \in friend_requests}
    /\ Return(w, call[w], Ok(200, "Friend request cancelled"))
    /\ UNCHANGED <<friends, friend_requests_seq, circleVars, eventVars>>

delete_request(w) ==
    /\ At(w, "delete_request")
    /\ friend_requests' = friend_requests \ get_by_id(call[w].target)
    /\ Return(w, call[w], Ok(200, "Friend request cancelled"))
    /\ UNCHANGED <<friends, friend_requests_seq, circleVars, eventVars>>

(* user_repository.get_by_id(friend_id) and are_friends *)
unfriend(w) ==
    /\ Accept(w)
    /\ \E current_user_id \in Users, friend_id \in UserIds :
        LET c == Call("unfriend", current_user_id, friend_id, 0, None)
        IN IF friend_id \notin Users
             THEN Raise(w, c, HTTPException(404, "User not found"))
           ELSE IF ~are_friends(current_user_id, friend_id)
             THEN Raise(w, c, HTTPException(400, "You are not friends with this user"))
           ELSE Goto(w, c, NoLoc, "remove_friendship") /\ UNCHANGED storeVars

(* friend_repository.remove_friendship: first() of the rows in either      *)
(* order is deleted; nothing happens when there is none.                   *)
remove_friendship(w) ==
    /\ At(w, "remove_friendship")
    /\ LET rows == friends \cap {<<call[w].caller, call[w].target>>,
                                 <<call[w].target, call[w].caller>>}
       IN IF rows = {}
            THEN UNCHANGED friends
            ELSE \E f \in rows : friends' = friends \ {f}
    /\ Return(w, call[w], Ok(200, "Friendship removed"))
    /\ UNCHANGED <<friend_requests, friend_requests_seq, circleVars, eventVars>>

(* ========================= CircleRepository ============================ *)
circle_get_by_id(circle_id) == {c \in circles : c.id = circle_id}

is_member(user_id, circle_id) == <<user_id, circle_id>> \in circle_membership

get_members(circle_id) == {m[1] : m \in {n \in circle_membership : n[2] = circle_id}} \cap Users

get_circles_for_user(user_id) ==
    {c \in circles : <<user_id, c.id>> \in circle_membership}

(* a foreign key is checked by InnoDB and not by SQLite (foreign_keys off) *)
ForeignKeys == engine = "mysql"

(* the attributes of the loaded object that were assigned another value:   *)
(* the columns of the UPDATE the unit of work emits at commit              *)
Changed(loaded, dirty) == {f \in DOMAIN loaded : dirty[f] # loaded[f]}

Restrict(r, D) == [f \in D |-> r[f]]
Patched(obj, patch) ==
    [f \in DOMAIN obj |-> IF f \in DOMAIN patch THEN patch[f] ELSE obj[f]]

CircleUpdateDTO_with_owner ==
    UNION {{Restrict([name |-> n, public |-> b, owner |-> o], D) :
               n \in Names, b \in BOOLEAN, o \in Users} :
              D \in SUBSET {"name", "public", "owner"}}

CircleUpdateDTO ==
    UNION {{Restrict([name |-> n, public |-> b], D) : n \in Names, b \in BOOLEAN} :
              D \in SUBSET {"name", "public"}}

(* circle_repository.add_member: INSERT and commit; unique_membership and  *)
(* the foreign key to circles.id can reject the row.                       *)
add_member(w, user_id, circle_id, ok) ==
    IF <<user_id, circle_id>> \in circle_membership
      THEN Raise(w, call[w], IntegrityError("unique_membership"))
    ELSE IF ForeignKeys /\ circle_get_by_id(circle_id) = {}
      THEN Raise(w, call[w], IntegrityError("foreign key"))
      ELSE /\ circle_membership' = circle_membership \cup {<<user_id, circle_id>>}
           /\ Return(w, call[w], ok)
           /\ UNCHANGED <<circles, circles_seq, friendVars, eventVars>>

(* circle_repository.remove_member: the row, if there, is deleted *)
remove_member(w, user_id, circle_id, ok) ==
    /\ circle_membership' = circle_membership \ {<<user_id, circle_id>>}
    /\ Return(w, call[w], ok)
    /\ UNCHANGED <<circles, circles_seq, friendVars, eventVars>>

(* =========================== CircleService ============================= *)
(* circle_repository.create: INSERT of the circle and commit *)
create_circle(w) ==
    /\ Accept(w)
    /\ \E current_user_id \in Users, name \in NewNames, public \in BOOLEAN :
        LET c == Call("create_circle", current_user_id, 0, 0,
                      [name |-> name, public |-> public])
            circle == [id |-> NewId(circles, circles_seq), name |-> name,
                       public |-> public, owner |-> current_user_id]
        IN /\ circle.id <= MaxCircleId
           /\ circles' = circles \cup {circle}
           /\ circles_seq' = NewSeq(circles, circles_seq)
           /\ Goto(w, c, [NoLoc EXCEPT !.circle = circle], "create_circle_add_member")
           /\ UNCHANGED <<circle_membership, friendVars, eventVars>>

(* Automatically add the owner as a member *)
create_circle_add_member(w) ==
    /\ At(w, "create_circle_add_member")
    /\ add_member(w, call[w].caller, loc[w].circle.id, Ok(201, "created"))

update_circle(w) ==
    /\ Accept(w)
    /\ \E current_user_id \in Users, circle_id \in CircleIds, update_dto \in CircleUpdateDTO :
        LET c == Call("update_circle", current_user_id, circle_id, 0, update_dto)
        IN \E circle \in First(circle_get_by_id(circle_id)) :
              IF circle = None
                THEN Raise(w, c, HTTPException(404, "Circle not found"))
              ELSE IF circle.owner # current_user_id
                THEN Raise(w, c, HTTPException(403, "Only the circle owner can update the circle"))
              ELSE /\ Goto(w, c, [NoLoc EXCEPT !.circle = circle,
                                               !.dirty = Patched(circle, update_dto)],
                           "update_circle_commit")
                   /\ UNCHANGED storeVars

update_circle_commit_all_columns(w) ==
    /\ At(w, "update_circle_commit")
    /\ IF circle_get_by_id(call[w].target) = {}
         THEN Raise(w, call[w], StaleDataError)
         ELSE /\ circles' = {IF c.id = call[w].target THEN loc[w].dirty ELSE c : c \in circles}
              /\ Return(w, call[w], Ok(200, "updated"))
              /\ UNCHANGED <<circle_membership, circles_seq, friendVars, eventVars>>

(* circle_repository.update: commit (UPDATE of the changed columns) and    *)
(* refresh; both fail when the row is gone.                                *)
update_circle_commit(w) ==
    /\ At(w, "update_circle_commit")
    /\ IF circle_get_by_id(call[w].target) = {}
         THEN Raise(w, call[w], StaleDataError)
         ELSE /\ circles' =
                   {IF c.id = call[w].target
                      THEN Patched(c, Restrict(loc[w].dirty, Changed(loc[w].circle, loc[w].dirty)))
                      ELSE c : c \in circles}
              /\ Return(w, call[w], Ok(200, "updated"))
              /\ UNCHANGED <<circle_membership, circles_seq, friendVars, eventVars>>

delete_circle(w) ==
    /\ Accept(w)
    /\ \E current_user_id \in Users, circle_id \in CircleIds :
        LET c == Call("delete_circle", current_user_id, circle_id, 0, None)
        IN \E circle \in First(circle_get_by_id(circle_id)) :
              IF circle = None
                THEN Raise(w, c, HTTPException(404, "Circle not found"))
              ELSE IF circle.owner # current_user_id
                THEN Raise(w, c, HTTPException(403, "Only the circle owner can delete the circle"))
              ELSE /\ Goto(w, c, NoLoc, "circle_delete")
                   /\ UNCHANGED storeVars

(* circle_repository.delete: DELETE of the circle row and commit; the      *)
(* membership rows are not touched, and a foreign key that still           *)
(* references the circle rejects the DELETE.                               *)
circle_delete(w) ==
    /\ At(w, "circle_delete")
    /\ IF ForeignKeys /\ \E m \in circle_membership : m[2] = call[w].target
         THEN Raise(w, call[w], IntegrityError("foreign key"))
         ELSE /\ circles' = circles \ circle_get_by_id(call[w].target)
              /\ Return(w, call[w], Ok(200, "Circle deleted successfully"))
              /\ UNCHANGED <<circle_membership, circles_seq, friendVars, eventVars>>

join_circle_any(w) ==
    /\ Accept(w)
    /\ \E current_user_id \in Users, circle_id \in CircleIds :
        LET c == Call("join_circle", current_user_id, circle_id, current_user_id, None)
        IN \E circle \in First(circle_get_by_id(circle_id)) :
              IF circle = None
                THEN Raise(w, c, HTTPException(404, "Circle not found"))
                ELSE /\ Goto(w, c, NoLoc, "add_is_member")
                     /\ UNCHANGED storeVars

join_circle(w) ==
    /\ Accept(w)
    /\ \E current_user_id \in Users, circle_id \in CircleIds :
        LET c == Call("join_circle", current_user_id, circle_id, current_user_id, None)
        IN \E circle \in First(circle_get_by_id(circle_id)) :
              IF circle = None
                THEN Raise(w, c, HTTPException(404, "Circle not found"))
              ELSE IF ~circle.public
                THEN Raise(w, c, HTTPException(403, "Cannot join a private circle"))
              ELSE /\ Goto(w, c, NoLoc, "add_is_member")
                   /\ UNCHANGED storeVars

add_member_to_circle_by_anyone(w) ==
    /\ Accept(w)
    /\ \E current_user_id \in Users, circle_id \in CircleIds, user_id \in UserIds :
        LET c == Call("add_member_to_circle", current_user_id, circle_id, user_id, None)
        IN \E circle \in First(circle_get_by_id(circle_id)) :
              IF circle = None
                THEN Raise(w, c, HTTPException(404, "Circle not found"))
              ELSE IF user_id \notin Users
                THEN Raise(w, c, HTTPException(404, "User not found"))
              ELSE /\ Goto(w, c, NoLoc, "add_is_member")
                   /\ UNCHANGED storeVars

(* circle, owner check and user_repository.get_by_id(user_id) *)
add_member_to_circle(w) ==
    /\ Accept(w)
    /\ \E current_user_id \in Users, circle_id \in CircleIds, user_id \in UserIds :
        LET c == Call("add_member_to_circle", current_user_id, circle_id, user_id, None)
        IN \E circle \in First(circle_get_by_id(circle_id)) :
              IF circle = None
                THEN Raise(w, c, HTTPException(404, "Circle not found"))
              ELSE IF circle.owner # current_user_id
                THEN Raise(w, c, HTTPException(403, "Only the circle owner can add members"))
              ELSE IF user_id \notin Users
                THEN Raise(w, c, HTTPException(404, "User not found"))
              ELSE /\ Goto(w, c, NoLoc, "add_is_member")
                   /\ UNCHANGED storeVars

(* Check if already a member (join_circle and add_member_to_circle) *)
add_is_member(w) ==
    /\ At(w, "add_is_member")
    /\ IF is_member(call[w].user, call[w].target)
         THEN Raise(w, call[w],
                    IF call[w].op = "join_circle"
                      THEN HTTPException(400, "Already a member of this circle")
                      ELSE HTTPException(400, "User is already a member of this circle"))
         ELSE Goto(w, call[w], loc[w], "add_member") /\ UNCHANGED storeVars

circle_add_member(w) ==
    /\ At(w, "add_member")
    /\ add_member(w, call[w].user, call[w].target,
                  IF call[w].op = "join_circle"
                    THEN Ok(200, "Successfully joined circle")
                    ELSE Ok(200, "User added to circle successfully"))

leave_circle(w) ==
    /\ Accept(w)
    /\ \E current_user_id \in Users, circle_id \in CircleIds :
        LET c == Call("leave_circle", current_user_id, circle_id, current_user_id, None)
        IN \E circle \in First(circle_get_by_id(circle_id)) :
              IF circle = None
                THEN Raise(w, c, HTTPException(404, "Circle not found"))
              ELSE IF circle.owner = current_user_id
                THEN Raise(w, c, HTTPException(400,
                              "Circle owner cannot leave the circle. Delete it instead."))
              ELSE /\ Goto(w, c, NoLoc, "remove_is_member")
                   /\ UNCHANGED storeVars

(* kick_member with the owner check ahead of the lookup result *)
kick_member_owner_check_first(w) ==
    /\ Accept(w)
    /\ \E current_user_id \in Users, circle_id \in CircleIds, user_id \in UserIds :
        LET c == Call("kick_member", current_user_id, circle_id, user_id, None)
        IN \E circle \in First(circle_get_by_id(circle_id)) :
              IF circle = None \/ circle.owner # current_user_id
                THEN Raise(w, c, HTTPException(403, "Only the circle owner can kick members"))
              ELSE IF user_id = current_user_id
                THEN Raise(w, c, HTTPException(400, "Cannot kick yourself from your own circle"))
              ELSE /\ Goto(w, c, NoLoc, "remove_is_member")
                   /\ UNCHANGED storeVars

kick_member(w) ==
    /\ Accept(w)
    /\ \E current_user_id \in Users, circle_id \in CircleIds, user_id \in UserIds :
        LET c == Call("kick_member", current_user_id, circle_id, user_id, None)
        IN \E circle \in First(circle_get_by_id(circle_id)) :
              IF circle = None
                THEN Raise(w, c, HTTPException(404, "Circle not found"))
              ELSE IF circle.owner # current_user_id
                THEN Raise(w, c, HTTPException(403, "Only the circle owner can kick members"))
              ELSE IF user_id = current_user_id
                THEN Raise(w, c, HTTPException(400, "Cannot kick yourself from your own circle"))
              ELSE /\ Goto(w, c, NoLoc, "remove_is_member")
                   /\ UNCHANGED storeVars

(* Check if member (leave_circle and kick_member) *)
remove_is_member(w) ==
    /\ At(w, "remove_is_member")
    /\ IF ~is_member(call[w].user, call[w].target)
         THEN Raise(w, call[w],
                    IF call[w].op = "leave_circle"
                      THEN HTTPException(400, "Not a member of this circle")
                      ELSE HTTPException(400, "User is not a member of this circle"))
         ELSE Goto(w, call[w], loc[w], "remove_member") /\ UNCHANGED storeVars

circle_remove_member(w) ==
    /\ At(w, "remove_member")
    /\ remove_member(w, call[w].user, call[w].target,
                     IF call[w].op = "leave_circle"
                       THEN Ok(200, "Successfully left circle")
                       ELSE Ok(200, "User kicked from circle successfully"))

(* ========================== EventRepository ============================ *)
event_get_by_id(event_id) == {e \in events : e.id = event_id}

owns_event_of_anyone(user_id, event_id) == \E o \in event_ownership : o[2] = event_id

owns_event(user_id, event_id) == <<user_id, event_id>> \in event_ownership

get_events_for_user(user_id) ==
    {e \in events : <<user_id, e.id>> \in event_ownership}

EventUpdateDTO ==
    UNION {{Restrict([name |-> n, description |-> d, start_at |-> s, end_at |-> e,
                      state |-> st], D) :
               n \in Names, d \in Descriptions \ {"null"}, s \in Times, e \in Times,
               st \in StateInputs} :
              D \in SUBSET {"name", "description", "start_at", "end_at", "state"}}

(* ============================ EventService ============================= *)
(* the end_at > start_at check, datetime.now() and the choice of the       *)
(* state.  models/event.py names the members of EventState UPCOMING and    *)
(* PASSED; EventState.upcoming and EventState.passed are no attributes of  *)
(* the class, so either branch raises AttributeError, which no handler     *)
(* catches: the request is answered 500 and the statements after it        *)
(* (Event(...), event_repository.create, add_owner) are never reached.     *)
create_event(w) ==
    /\ Accept(w)
    /\ \E current_user_id \in Users, start_at \in Times, end_at \in Times :
        LET c == Call("create_event", current_user_id, 0, 0,
                      [start_at |-> start_at, end_at |-> end_at])
        IN IF end_at <= start_at
             THEN Raise(w, c, HTTPException(400, "Event end time must be after start time"))
           ELSE IF start_at > now
             THEN Raise(w, c, AttributeError("AttributeError: upcoming"))
             ELSE Raise(w, c, AttributeError("AttributeError: passed"))

get_event_by_id(w) ==
    /\ Accept(w)
    /\ \E current_user_id \in Users, event_id \in EventIds :
        LET c == Call("get_event_by_id", current_user_id, event_id, 0, None)
        IN \E event \in First(event_get_by_id(event_id)) :
              IF event = None
                THEN Raise(w, c, HTTPException(404, "Event not found"))
                ELSE /\ Goto(w, c, [NoLoc EXCEPT !.event = event], "get_owns_event")
                     /\ UNCHANGED storeVars

get_owns_event(w) ==
    /\ At(w, "get_owns_event")
    /\ IF ~owns_event(call[w].caller, call[w].target)
         THEN Raise(w, call[w], HTTPException(403, "You do not have access to this event"))
         ELSE Raise(w, call[w], OkBody(200, "event", loc[w].event))

update_event(w) ==
    /\ Accept(w)
    /\ \E current_user_id \in Users, event_id \in EventIds :
        LET c == Call("update_event", current_user_id, event_id, 0, None)
        IN \E event \in First(event_get_by_id(event_id)) :
              IF event = None
                THEN Raise(w, c, HTTPException(404, "Event not found"))
                ELSE /\ Goto(w, c, [NoLoc EXCEPT !.event = event], "update_owns_event")
                     /\ UNCHANGED storeVars

(* apply_update without the check of the state value *)
apply_update_any_state(event, update_dto) ==
    LET dirty == Patched(event, update_dto)
    IN IF dirty.end_at <= dirty.start_at
         THEN [error |-> "Event end time must be after start time", event |-> dirty]
         ELSE [error |-> "", event |-> dirty]

(* the body of update_event after the ownership check: the fields of      *)
(* update_dto that are not None are assigned to the loaded object, then    *)
(* the state value and end_at > start_at are checked                       *)
apply_update(event, update_dto) ==
    LET dirty == Patched(event, update_dto)
    IN IF "state" \in DOMAIN update_dto /\ update_dto.state \notin EventState
         THEN [error |-> "Invalid state. Must be one of: upcoming, passed",
               event |-> dirty]
       ELSE IF dirty.end_at <= dirty.start_at
         THEN [error |-> "Event end time must be after start time", event |-> dirty]
       ELSE [error |-> "", event |-> dirty]

(* update_owns_event with the assigned values written to the row before   *)
(* the checks                                                              *)
update_owns_event_write_before_check(w) ==
    /\ At(w, "update_owns_event")
    /\ IF ~owns_event(call[w].caller, call[w].target)
         THEN Raise(w, call[w], HTTPException(403, "Only event owners can update the event"))
         ELSE \E r \in {[result |-> apply_update(loc[w].event, update_dto),
                          state |-> Restrict(update_dto, DOMAIN update_dto \cap {"state"})] :
                            update_dto \in EventUpdateDTO} :
                 LET c == [call[w] EXCEPT !.patch = r.state]
                 IN IF r.result.error # ""
                      THEN /\ events' = {IF e.id = call[w].target THEN r.result.event ELSE e :
                                            e \in events}
                           /\ Return(w, c, HTTPException(400, r.result.error))
                           /\ UNCHANGED <<event_ownership, events_seq, friendVars,
                                          circleVars>>
                      ELSE /\ Goto(w, c, [loc[w] EXCEPT !.dirty = r.result.event],
                                   "event_update")
                           /\ UNCHANGED storeVars

(* owns_event, then apply_update.  update_dto is the body of the request;  *)
(* this is the first statement that reads it, so it is drawn here, and the *)
(* call keeps the state it provides (the other fields are in loc.dirty).   *)
update_owns_event(w) ==
    /\ At(w, "update_owns_event")
    /\ IF ~owns_event(call[w].caller, call[w].target)
         THEN Raise(w, call[w], HTTPException(403, "Only event owners can update the event"))
         ELSE \E r \in {[result |-> apply_update(loc[w].event, update_dto),
                          state |-> Restrict(update_dto, DOMAIN update_dto \cap {"state"})] :
                            update_dto \in EventUpdateDTO} :
                 LET c == [call[w] EXCEPT !.patch = r.state]
                 IN IF r.result.error # ""
                      THEN Raise(w, c, HTTPException(400, r.result.error))
                      ELSE /\ Goto(w, c, [loc[w] EXCEPT !.dirty = r.result.event],
                                   "event_update")
                           /\ UNCHANGED storeVars

(* event_repository.update: commit (UPDATE of the changed columns) and     *)
(* refresh; both fail when the row is gone.                                *)
event_update(w) ==
    /\ At(w, "event_update")
    /\ IF event_get_by_id(call[w].target) = {}
         THEN Raise(w, call[w], StaleDataError)
         ELSE LET updated(e) ==
                      Patched(e, Restrict(loc[w].dirty, Changed(loc[w].event, loc[w].dirty)))
              IN /\ events' = {IF e.id = call[w].target THEN updated(e) ELSE e : e \in events}
                 /\ \E e \in event_get_by_id(call[w].target) :
                       Return(w, call[w], OkBody(200, "updated", updated(e)))
                 /\ UNCHANGED <<event_ownership, events_seq, friendVars, circleVars>>

delete_event(w) ==
    /\ Accept(w)
    /\ \E current_user_id \in Users, event_id \in EventIds :
        LET c == Call("delete_event", current_user_id, event_id, 0, None)
        IN \E event \in First(event_get_by_id(event_id)) :
              IF event = None
                THEN Raise(w, c, HTTPException(404, "Event not found"))
                ELSE /\ Goto(w, c, [NoLoc EXCEPT !.event = event], "delete_owns_event")
                     /\ UNCHANGED storeVars

delete_owns_event(w) ==
    /\ At(w, "delete_owns_event")
    /\ IF ~owns_event(call[w].caller, call[w].target)
         THEN Raise(w, call[w], HTTPException(403, "Only event owners can delete the event"))
         ELSE Goto(w, call[w], loc[w], "event_delete") /\ UNCHANGED storeVars

(* event_repository.delete: DELETE of the event row and commit; the        *)
(* ownership rows are not touched, and a foreign key that still            *)
(* references the event rejects the DELETE.                                *)
event_delete(w) ==
    /\ At(w, "event_delete")
    /\ IF ForeignKeys /\ \E o \in event_ownership : o[2] = call[w].target
         THEN Raise(w, call[w], IntegrityError("foreign key"))
         ELSE /\ events' = events \ event_get_by_id(call[w].target)
              /\ Return(w, call[w], Ok(200, "Event deleted successfully"))
              /\ UNCHANGED <<event_ownership, events_seq, friendVars, circleVars>>

(* datetime.now() moves on *)
Tick ==
    /\ now < MaxNow
    /\ now' = now + 1
    /\ response' = NoResponse
    /\ UNCHANGED <<engine, storeVars, pc, call, loc, calls, budget>>

(* ============================ specifications =========================== *)
(* the tables init_db creates are empty; n requests are served *)
InitWith(n) ==
    /\ engine \in Engines
    /\ friends = {}
    /\ friend_requests = {}
    /\ friend_requests_seq = 1
    /\ circles = {}
    /\ circle_membership = {}
    /\ circles_seq = 1
    /\ events = {}
    /\ event_ownership = {}
    /\ events_seq = 1
    /\ now = 0
    /\ pc = [w \in Workers |-> "idle"]
    /\ call = [w \in Workers |-> NoCall]
    /\ loc = [w \in Workers |-> NoLoc]
    /\ response = NoResponse
    /\ calls = 0
    /\ budget = n

Init == InitWith(MaxCalls)

InitDeep == InitWith(DeepCalls)

(* the rows the events tables hold when the service starts: create_event   *)
(* stores none, so an event is there only by a direct insert, as           *)
(* create_event_direct and add_event_owner_direct make them: one event     *)
(* from the first to the last instant with a state of EventState, and      *)
(* ownership rows of that event                                            *)
EventRows ==
    {[id |-> 1, name |-> "n1", description |-> "null", start_at |-> 0, end_at |-> MaxTime,
      state |-> st] : st \in EventState}

InitEvent ==
    /\ engine \in Engines
    /\ friends = {}
    /\ friend_requests = {}
    /\ friend_requests_seq = 1
    /\ circles = {}
    /\ circle_membership = {}
    /\ circles_seq = 1
    /\ events \in {{}} \cup {{e} : e \in EventRows}
    /\ event_ownership \in SUBSET (Users \X {e.id : e \in events})
    /\ events_seq = Max({e.id : e \in events}) + 1
    /\ now = 0
    /\ pc = [w \in Workers |-> "idle"]
    /\ call = [w \in Workers |-> NoCall]
    /\ loc = [w \in Workers |-> NoLoc]
    /\ response = NoResponse
    /\ calls = 0
    /\ budget = EventCalls

NextFriend ==
    \E w \in Workers :
        \/ create_friend_request(w)
        \/ create_get_request(w)
        \/ create_get_reverse(w)
        \/ create_request(w)
        \/ accept_friend_request(w)
        \/ update_status(w)
        \/ update_status_commit(w)
        \/ add_friendship(w)
        \/ reject_friend_request(w)
        \/ cancel_friend_request(w)
        \/ delete_request(w)
        \/ unfriend(w)
        \/ remove_friendship(w)

SpecFriend == Init /\ [][NextFriend]_vars

SpecFriendDeep == InitDeep /\ [][NextFriend]_vars

NextCircle ==
    \E w \in Workers :
        \/ create_circle(w)
        \/ create_circle_add_member(w)
        \/ update_circle(w)
        \/ update_circle_commit(w)
        \/ delete_circle(w)
        \/ circle_delete(w)
        \/ join_circle(w)
        \/ add_member_to_circle(w)
        \/ add_is_member(w)
        \/ circle_add_member(w)
        \/ leave_circle(w)
        \/ kick_member(w)
        \/ remove_is_member(w)
        \/ circle_remove_member(w)

SpecCircle == Init /\ [][NextCircle]_vars

SpecCircleDeep == InitDeep /\ [][NextCircle]_vars

NextEvent ==
    \/ \E w \in Workers :
          \/ create_event(w)
          \/ get_event_by_id(w)
          \/ get_owns_event(w)
          \/ update_event(w)
          \/ update_owns_event(w)
          \/ event_update(w)
          \/ delete_event(w)
          \/ delete_owns_event(w)
          \/ event_delete(w)
    \/ Tick

SpecEvent == InitEvent /\ [][NextEvent]_vars

(* the friend and the circle endpoints served side by side *)
SpecSocial == Init /\ [][NextFriend \/ NextCircle]_vars

(* ================================ claims =============================== *)
(* rows of the store, read without the repositories *)
Pending(a, b) ==
    \E r \in friend_requests :
        r.outgoing_user_id = a /\ r.incoming_user_id = b /\ r.status = "pending"

Friendship(a, b) == <<a, b>> \in friends \/ <<b, a>> \in friends

(* the step takes a new request; TakenCall is that request *)
Taken == calls' = calls + 1

TakenCall ==
    IF response' # NoResponse
      THEN response'.call
      ELSE call'[CHOOSE w \in Workers : pc[w] = "idle" /\ pc'[w] # "idle"]

(* the step answers call c with an error and leaves the store as it is *)
Fails(c, status, detail) ==
    /\ response' = [call |-> c, status |-> status, detail |-> detail, body |-> None]
    /\ UNCHANGED storeVars

UniqueConstraints == {"unique_friendship", "unique_friend_request",
                      "unique_membership", "unique_event_ownership"}

(* C1: in every reachable state at most one Friends row exists for an      *)
(* unordered pair of distinct users: (u1,u2) and (u2,u1) never coexist.    *)
C1_OneRowPerUnorderedPair ==
    \A f \in friends : f[1] # f[2] => <<f[2], f[1]>> \notin friends

(* C2: the step of accept_friend_request that turns a pending request to   *)
(* accepted also inserts the friendship of its two users: no state has     *)
(* the request accepted by that step and the friendship not yet there.     *)
C2_AcceptIsOneUnit ==
    [][\A r \in friend_requests :
          (/\ r.status = "pending"
           /\ [r EXCEPT !.status = "accepted"] \in friend_requests')
          => \E f \in friends' :
                f \in {<<r.outgoing_user_id, r.incoming_user_id>>,
                       <<r.incoming_user_id, r.outgoing_user_id>>}]_vars

(* C3: a pending request a->b and a pending request b->a never exist at    *)
(* the same time.                                                          *)
C3_NoMutualPending ==
    \A a \in Users, b \in Users : ~(a # b /\ Pending(a, b) /\ Pending(b, a))

(* C4: in the state right after accept_friend_request(b, a) returned       *)
(* success, a and b are friends and no request between them is pending.    *)
C4_AfterAccept ==
    (response.call.op = "accept_friend_request" /\ response.status = 200)
    => LET a == response.call.target
           b == response.call.caller
       IN are_friends(a, b) /\ ~Pending(a, b) /\ ~Pending(b, a)

(* C5: in every reachable state the owner of every circle has a            *)
(* membership row for it.                                                  *)
C5_OwnerIsMember ==
    \A c \in circles : <<c.owner, c.id>> \in circle_membership

(* C6: a join_circle of a user u who is not the owner, on an existing      *)
(* circle, that gets as far as the membership answers by what the store    *)
(* holds: if the row (u, c) is there (a concurrent join put it there) the  *)
(* answer is the 400 "Already a member", otherwise the call inserts the    *)
(* row and answers success.  Of two concurrent joins exactly one succeeds  *)
(* and the other gets the conflict.                                        *)
C6_ConcurrentJoin ==
    [][(/\ response'.call.op = "join_circle"
        /\ response'.status \notin {403, 404}
        /\ \E c \in circle_get_by_id(response'.call.target) :
              c.owner # response'.call.caller)
       => LET row == <<response'.call.caller, response'.call.target>>
          IN IF row \in circle_membership
               THEN /\ response'.status = 400
                    /\ response'.detail = "Already a member of this circle"
               ELSE /\ response'.status = 200
                    /\ row \in circle_membership']_vars

(* C7: a request whose INSERT was rejected by a uniqueness constraint is   *)
(* answered with a typed 4xx failure, never with an unhandled error.       *)
C7_UniqueViolationIsConflict ==
    response.detail \in UniqueConstraints => response.status \in {400, 409}

(* C8: in the state right after delete_circle returned success, the        *)
(* circle is gone and so is every membership row with its id.              *)
C8_DeleteRemovesMemberships ==
    (response.call.op = "delete_circle" /\ response.status = 200)
    => /\ circle_get_by_id(response.call.target) = {}
       /\ \A m \in circle_membership : m[2] # response.call.target

EventOps == {"get_event_by_id", "update_event", "delete_event"}

(* C9: a user without an ownership row for an event has no access to it:   *)
(* get, update and delete by that user answer 403 (404 only when the       *)
(* event is not there) and change no event, and an event row is changed    *)
(* or removed only by the request of a user who holds an ownership row.    *)
C9_OwnershipOnlyAccess ==
    [][/\ (/\ response'.call.op \in EventOps
           /\ <<response'.call.caller, response'.call.target>> \notin event_ownership)
          => /\ response'.status \in {403, 404}
             /\ response'.status = 404 => event_get_by_id(response'.call.target) = {}
             /\ events' = events
       /\ \A e \in events :
             e \notin events'
             => \E w \in Workers :
                   /\ call[w].op \in {"update_event", "delete_event"}
                   /\ call[w].target = e.id
                   /\ <<call[w].caller, e.id>> \in event_ownership
                   /\ pc'[w] = "idle"]_vars

C9_Witness ==
    /\ response.call.op \in EventOps
    /\ response.status = 403
    /\ event_get_by_id(response.call.target) # {}
    /\ <<response.call.caller, response.call.target>> \notin event_ownership

(* C10: every stored event has end_at > start_at.                          *)
C10_EndAfterStart ==
    \A e \in events : e.end_at > e.start_at

(* the times a create_event request carries, and whether the service     *)
(* goes past its first check with them                                     *)
CreateAnswered ==
    /\ response'.call.op = "create_event"
    /\ response'.call.patch.end_at > response'.call.patch.start_at

(* C11: create_event inserts the event and its creator's ownership row as  *)
(* one unit: a create with end_at after start_at answers 201 with a new    *)
(* event row and the creator's ownership row of it both stored, and no     *)
(* step stores a new event row without an ownership row of it.             *)
C11_CreateEventIsOneUnit ==
    [][/\ CreateAnswered
          => /\ response'.status = 201
             /\ \E e \in events' \ events :
                   <<response'.call.caller, e.id>> \in event_ownership'
       /\ \A e \in events' :
             (\A x \in events : x.id # e.id)
             => \E u \in Users : <<u, e.id>> \in event_ownership']_vars

(* C12: create_friend_request answers 404 when the recipient is no user,   *)
(* 400 when sender and recipient are the same user, 400 when the two are   *)
(* friends, and 400 when the request it reads in either direction is       *)
(* pending; a create that does not answer 201 inserts no request row.      *)
C12_SendRequestErrors ==
    [][/\ (Taken /\ TakenCall.op = "create_friend_request")
          => LET c == TakenCall
                 a == c.caller
                 b == c.target
             IN /\ b \notin Users => Fails(c, 404, "Recipient user not found")
                /\ (b \in Users /\ a = b)
                   => Fails(c, 400, "Cannot send friend request to yourself")
                /\ (b \in Users /\ a # b /\ Friendship(a, b))
                   => Fails(c, 400, "Already friends with this user")
       /\ \A w \in Workers :
             (call[w].op = "create_friend_request" /\ pc'[w] # pc[w])
             => LET a == call[w].caller
                    b == call[w].target
                    sent == /\ loc[w].existing_request # None
                            /\ loc[w].existing_request.status = "pending"
                IN /\ (pc[w] = "create_get_request" /\ Pending(a, b))
                      => /\ loc'[w].existing_request # None
                         /\ loc'[w].existing_request.status = "pending"
                   /\ (pc[w] = "create_get_reverse" /\ sent)
                      => Fails(call[w], 400, "Friend request already sent")
                   /\ (pc[w] = "create_get_reverse" /\ ~sent /\ Pending(b, a))
                      => Fails(call[w], 400,
                               "This user has already sent you a friend request")
       /\ (response'.call.op = "create_friend_request" /\ response'.status # 201)
          => friend_requests' = friend_requests]_vars

C12_Witness ==
    /\ response.call.op = "create_friend_request"
    /\ response.status = 400
    /\ response.detail = "This user has already sent you a friend request"
    /\ Pending(response.call.target, response.call.caller)
    /\ ~Pending(response.call.caller, response.call.target)

(* C13: a create_friend_request that answers 201 has stored its request    *)
(* as pending; an accept_friend_request that answers 200 leaves its two    *)
(* users friends; and a create_friend_request taken while the two users    *)
(* are friends, by either of them, answers 400 "Already friends with this  *)
(* user" and inserts nothing.                                              *)
C13_ScenarioA ==
    [][/\ (response'.call.op = "create_friend_request" /\ response'.status = 201)
          => /\ response'.body \in friend_requests'
             /\ response'.body.outgoing_user_id = response'.call.caller
             /\ response'.body.incoming_user_id = response'.call.target
             /\ response'.body.status = "pending"
       /\ (response'.call.op = "accept_friend_request" /\ response'.status = 200)
          => \/ <<response'.call.target, response'.call.caller>> \in friends'
             \/ <<response'.call.caller, response'.call.target>> \in friends'
       /\ \A a \in Users, b \in Users :
             (/\ Friendship(a, b)
              /\ Taken
              /\ TakenCall = Call("create_friend_request", a, b, 0, None))
             => /\ response'.call = TakenCall
                /\ response'.status = 400
                /\ response'.detail = "Already friends with this user"
                /\ friend_requests' = friend_requests]_vars

C13_Witness ==
    /\ response.call.op = "create_friend_request"
    /\ response.status = 400
    /\ response.detail = "Already friends with this user"
    /\ Friendship(response.call.caller, response.call.target)
    /\ \E r \in friend_requests :
          /\ r.outgoing_user_id = response.call.caller
          /\ r.incoming_user_id = response.call.target
          /\ r.status = "accepted"

(* C14: accept_friend_request(accepter, sender) answers 404 when no row    *)
(* sender->accepter exists and 400 when that row is accepted or rejected;  *)
(* it goes on only with a pending row sender->accepter it has read, only   *)
(* such a call answers 200, and a call that does not answer 200 inserts    *)
(* no friendship.                                                          *)
C14_AcceptErrors ==
    [][/\ (Taken /\ TakenCall.op = "accept_friend_request")
          => LET c == TakenCall
                 rows == {r \in friend_requests :
                             /\ r.outgoing_user_id = c.target
                             /\ r.incoming_user_id = c.caller}
             IN /\ rows = {} => Fails(c, 404, "Friend request not found")
                /\ (rows # {} /\ \A r \in rows : r.status # "pending")
                   => Fails(c, 400, "Friend request is not pending")
                /\ response' = NoResponse
                   => \E w \in Workers :
                         /\ pc[w] = "idle"
                         /\ call'[w] = c
                         /\ loc'[w].friend_request \in rows
                         /\ loc'[w].friend_request.status = "pending"
       /\ (response'.call.op = "accept_friend_request" /\ response'.status = 200)
          => \E w \in Workers :
                /\ call[w] = response'.call
                /\ loc[w].friend_request.outgoing_user_id = call[w].target
                /\ loc[w].friend_request.incoming_user_id = call[w].caller
                /\ loc[w].friend_request.status = "pending"
       /\ (response'.call.op = "accept_friend_request" /\ response'.status # 200)
          => friends' = friends]_vars

C14_Witness ==
    /\ response.call.op = "accept_friend_request"
    /\ response.status = 404
    /\ Pending(response.call.caller, response.call.target)

(* C15: reject_friend_request(caller, request_id) answers 404 when the     *)
(* request is absent, 403 when the caller is not its incoming user, 400    *)
(* when it is not pending; when it answers 200 the row is in the store     *)
(* with status rejected, and no step of a reject inserts a friendship.     *)
C15_Reject ==
    [][/\ (Taken /\ TakenCall.op = "reject_friend_request")
          => LET c == TakenCall
                 rows == {r \in friend_requests : r.id = c.target}
             IN /\ rows = {} => Fails(c, 404, "Friend request not found")
                /\ \A r \in rows :
                      /\ r.incoming_user_id # c.caller
                         => Fails(c, 403, "You can only reject requests sent to you")
                      /\ (r.incoming_user_id = c.caller /\ r.status # "pending")
                         => Fails(c, 400, "Friend request is not pending")
       /\ (response'.call.op = "reject_friend_request" /\ response'.status = 200)
          => \E r \in friend_requests' :
                /\ r.id = response'.call.target
                /\ r.incoming_user_id = response'.call.caller
                /\ r.status = "rejected"
       /\ \A w \in Workers :
             (call[w].op = "reject_friend_request" /\ pc'[w] # pc[w])
             => friends' = friends]_vars

(* C16: cancel_friend_request(caller, request_id) answers 404 when the     *)
(* request is absent, 403 when the caller is not its outgoing user, 400    *)
(* when it is not pending; when it answers 200 no row with that id is in   *)
(* the store, and any other answer leaves the request rows as they were.   *)
C16_Cancel ==
    [][/\ (Taken /\ TakenCall.op = "cancel_friend_request")
          => LET c == TakenCall
                 rows == {r \in friend_requests : r.id = c.target}
             IN /\ rows = {} => Fails(c, 404, "Friend request not found")
                /\ \A r \in rows :
                      /\ r.outgoing_user_id # c.caller
                         => Fails(c, 403, "You can only cancel requests you sent")
                      /\ (r.outgoing_user_id = c.caller /\ r.status # "pending")
                         => Fails(c, 400, "Friend request is not pending")
       /\ (response'.call.op = "cancel_friend_request" /\ response'.status = 200)
          => \A r \in friend_requests' : r.id # response'.call.target
       /\ (response'.call.op = "cancel_friend_request" /\ response'.status # 200)
          => friend_requests' = friend_requests]_vars

C16_Witness ==
    /\ response.call.op = "cancel_friend_request"
    /\ response.status = 200
    /\ \A r \in friend_requests : r.id # response.call.target

(* C17: unfriend(caller, other) answers 404 when other is no user and 400  *)
(* when the two are not friends; in the state right after it answered 200  *)
(* no Friends row of the two users is left, in either order.               *)
C17_Unfriend ==
    [][/\ (Taken /\ TakenCall.op = "unfriend")
          => LET c == TakenCall
             IN /\ c.target \notin Users => Fails(c, 404, "User not found")
                /\ (c.target \in Users /\ ~Friendship(c.caller, c.target))
                   => Fails(c, 400, "You are not friends with this user")
       /\ (response'.call.op = "unfriend" /\ response'.status = 200)
          => /\ <<response'.call.caller, response'.call.target>> \notin friends'
             /\ <<response'.call.target, response'.call.caller>> \notin friends']_vars

(* C18: friendship lookups do not depend on the order of the two users:    *)
(* are_friends(u1,u2) = are_friends(u2,u1), and u2 is among the friends    *)
(* of u1 exactly when u1 is among the friends of u2, exactly when          *)
(* are_friends(u1,u2).                                                     *)
C18_SymmetricLookups ==
    \A u1 \in Users, u2 \in Users :
        /\ are_friends(u1, u2) <=> are_friends(u2, u1)
        /\ u2 \in get_friends_for_user(u1) <=> u1 \in get_friends_for_user(u2)
        /\ u2 \in get_friends_for_user(u1) <=> are_friends(u1, u2)

C18_Witness ==
    \E f \in friends :
        /\ f[2] < f[1]
        /\ f[1] \in get_friends_for_user(f[2])
        /\ f[2] \in get_friends_for_user(f[1])
        /\ are_friends(f[2], f[1])

(* C19: a request row enters the store with status pending; a pending row  *)
(* stays, turns accepted or rejected, or is deleted; an accepted or        *)
(* rejected row is never changed or deleted by any step; accept, reject    *)
(* and cancel taken on a row that is not pending answer 400.               *)
C19_StatusLifecycle ==
    [][/\ \A r \in friend_requests' :
             (\A q \in friend_requests : q.id # r.id) => r.status = "pending"
       /\ \A r \in friend_requests :
             /\ r.status # "pending" => r \in friend_requests'
             /\ r.status = "pending"
                => \A q \in friend_requests' :
                      q.id = r.id => \E s \in {"pending", "accepted", "rejected"} :
                                        q = [r EXCEPT !.status = s]
       /\ (Taken /\ TakenCall.op \in {"reject_friend_request", "cancel_friend_request"})
          => \A r \in friend_requests :
                (/\ r.id = TakenCall.target
                 /\ r.status # "pending"
                 /\ TakenCall.caller = (IF TakenCall.op = "reject_friend_request"
                                          THEN r.incoming_user_id
                                          ELSE r.outgoing_user_id))
                => Fails(TakenCall, 400, "Friend request is not pending")
       /\ (Taken /\ TakenCall.op = "accept_friend_request")
          => \A r \in friend_requests :
                (/\ r.outgoing_user_id = TakenCall.target
                 /\ r.incoming_user_id = TakenCall.caller
                 /\ r.status # "pending")
                => Fails(TakenCall, 400, "Friend request is not pending")]_vars

(* C20: a Friends row is inserted only by the step of an                   *)
(* accept_friend_request that answers 200, for the sender and the          *)
(* accepter of a request that call has read as pending; a Friends row is   *)
(* deleted only by the step of an unfriend called by one of its two users  *)
(* on the other.                                                           *)
C20_FriendshipOrigin ==
    [][/\ \A f \in friends' \ friends :
             \E w \in Workers :
                /\ call[w].op = "accept_friend_request"
                /\ f = <<call[w].target, call[w].caller>>
                /\ loc[w].friend_request.outgoing_user_id = f[1]
                /\ loc[w].friend_request.incoming_user_id = f[2]
                /\ loc[w].friend_request.status = "pending"
                /\ response'.call = call[w]
                /\ response'.status = 200
       /\ \A f \in friends \ friends' :
             \E w \in Workers :
                /\ call[w].op = "unfriend"
                /\ {call[w].caller, call[w].target} = {f[1], f[2]}
                /\ response'.call = call[w]
                /\ response'.status = 200]_vars

C20_Witness ==
    /\ response.call.op = "unfriend"
    /\ response.status = 200
    /\ friends = {}
    /\ \E r \in friend_requests :
          /\ r.status = "accepted"
          /\ {r.outgoing_user_id, r.incoming_user_id}
                = {response.call.caller, response.call.target}

(* C21: no Friends row and no FriendRequests row names the same user       *)
(* twice.                                                                  *)
C21_NoSelfRows ==
    /\ \A f \in friends : f[1] # f[2]
    /\ \A r \in friend_requests : r.outgoing_user_id # r.incoming_user_id

C21_Witness ==
    /\ response.call.op = "create_friend_request"
    /\ response.call.caller = response.call.target
    /\ response.status = 400
    /\ response.detail = "Cannot send friend request to yourself"
    /\ friend_requests # {}

(* C22: join_circle(caller, circle) answers 404 when the circle does not   *)
(* exist, 403 when it is not public (whether or not the caller is a        *)
(* member), 400 when the membership it reads is there; when it answers     *)
(* 200 it has inserted the row (caller, circle) and nothing else, and any  *)
(* other answer leaves the memberships as they were.                       *)
C22_JoinErrors ==
    [][/\ (Taken /\ TakenCall.op = "join_circle")
          => LET c == TakenCall
                 rows == {x \in circles : x.id = c.target}
             IN /\ rows = {} => Fails(c, 404, "Circle not found")
                /\ \A x \in rows : ~x.public => Fails(c, 403, "Cannot join a private circle")
       /\ \A w \in Workers :
             (/\ call[w].op = "join_circle"
              /\ pc[w] = "add_is_member"
              /\ pc'[w] # pc[w]
              /\ <<call[w].caller, call[w].target>> \in circle_membership)
             => Fails(call[w], 400, "Already a member of this circle")
       /\ (response'.call.op = "join_circle" /\ response'.status = 200)
          => LET row == <<response'.call.caller, response'.call.target>>
             IN /\ row \notin circle_membership
                /\ circle_membership' = circle_membership \cup {row}
                /\ circles' = circles
       /\ (response'.call.op = "join_circle" /\ response'.status # 200)
          => circle_membership' = circle_membership]_vars

C22_Witness ==
    /\ response.call.op = "join_circle"
    /\ response.status = 403
    /\ <<response.call.caller, response.call.target>> \in circle_membership
    /\ \E x \in circles : x.id = response.call.target /\ ~x.public

(* C23: a membership row is inserted only by create_circle for the owner,  *)
(* by a join_circle that read the circle as public, or by an               *)
(* add_member_to_circle that read its caller as the owner: join_circle on  *)
(* a private circle answers 403; add_member_to_circle answers 403 for a    *)
(* caller who is not the owner, 404 for a target who is no user, 400 for   *)
(* a membership it reads as there; when it answers 200 the target user is  *)
(* among the members of the circle.                                        *)
C23_PrivateCircleMembers ==
    [][/\ (Taken /\ TakenCall.op = "join_circle")
          => \A x \in circles :
                (x.id = TakenCall.target /\ ~x.public)
                => Fails(TakenCall, 403, "Cannot join a private circle")
       /\ (Taken /\ TakenCall.op = "add_member_to_circle")
          => LET c == TakenCall
                 rows == {x \in circles : x.id = c.target}
             IN /\ rows = {} => Fails(c, 404, "Circle not found")
                /\ \A x \in rows :
                      /\ x.owner # c.caller
                         => Fails(c, 403, "Only the circle owner can add members")
                      /\ (x.owner = c.caller /\ c.user \notin Users)
                         => Fails(c, 404, "User not found")
       /\ \A w \in Workers :
             (/\ call[w].op = "add_member_to_circle"
              /\ pc[w] = "add_is_member"
              /\ pc'[w] # pc[w]
              /\ <<call[w].user, call[w].target>> \in circle_membership)
             => Fails(call[w], 400, "User is already a member of this circle")
       /\ \A m \in circle_membership' \ circle_membership :
             \E w \in Workers :
                /\ pc'[w] = "idle"
                /\ \/ call[w].op = "create_circle" /\ m = <<call[w].caller, loc[w].circle.id>>
                   \/ call[w].op = "join_circle" /\ m = <<call[w].caller, call[w].target>>
                   \/ call[w].op = "add_member_to_circle"
                      /\ m = <<call[w].user, call[w].target>>
       /\ (response'.call.op = "add_member_to_circle" /\ response'.status = 200)
          => /\ response'.call.user \in Users
             /\ <<response'.call.user, response'.call.target>> \in circle_membership']_vars

C23_Witness ==
    /\ response.call.op = "add_member_to_circle"
    /\ response.status = 200
    /\ response.call.user # response.call.caller
    /\ response.call.user \in get_members(response.call.target)
    /\ \E x \in circles :
          x.id = response.call.target /\ ~x.public /\ x.owner = response.call.caller

(* C24: leave_circle answers 400 when the caller is the owner and 400      *)
(* when the membership it reads is not there; kick_member answers 403      *)
(* when the caller is not the owner, 400 when the target is the caller     *)
(* and 400 when the membership it reads is not there; a leave or kick      *)
(* that answers 200 removes at most the row (user, circle) and any other   *)
(* answer removes nothing; no membership row of the owner of its circle    *)
(* is ever removed.                                                        *)
C24_LeaveKick ==
    [][/\ (Taken /\ TakenCall.op = "leave_circle")
          => \A x \in circles :
                (x.id = TakenCall.target /\ x.owner = TakenCall.caller)
                => Fails(TakenCall, 400,
                         "Circle owner cannot leave the circle. Delete it instead.")
       /\ (Taken /\ TakenCall.op = "kick_member")
          => \A x \in circles :
                x.id = TakenCall.target
                => /\ x.owner # TakenCall.caller
                      => Fails(TakenCall, 403, "Only the circle owner can kick members")
                   /\ (x.owner = TakenCall.caller /\ TakenCall.user = TakenCall.caller)
                      => Fails(TakenCall, 400, "Cannot kick yourself from your own circle")
       /\ \A w \in Workers :
             (/\ call[w].op \in {"leave_circle", "kick_member"}
              /\ pc[w] = "remove_is_member"
              /\ pc'[w] # pc[w]
              /\ <<call[w].user, call[w].target>> \notin circle_membership)
             => Fails(call[w], 400,
                      IF call[w].op = "leave_circle"
                        THEN "Not a member of this circle"
                        ELSE "User is not a member of this circle")
       /\ (response'.call.op \in {"leave_circle", "kick_member"})
          => /\ circles' = circles
             /\ circle_membership' =
                   IF response'.status = 200
                     THEN circle_membership \ {<<response'.call.user, response'.call.target>>}
                     ELSE circle_membership
       /\ \A m \in circle_membership \ circle_membership' :
             \A x \in circles : x.id = m[2] => x.owner # m[1]]_vars

(* C25: a leave_circle taken by a user who is not the owner and whose      *)
(* membership it reads as missing answers 400 "Not a member of this        *)
(* circle"; a leave_circle that answers 200 has removed the row (caller,   *)
(* circle) in the step that answers.                                       *)
C25_LeaveTwice ==
    [][/\ \A w \in Workers :
             (/\ call[w].op = "leave_circle"
              /\ pc[w] = "remove_is_member"
              /\ pc'[w] # pc[w]
              /\ <<call[w].caller, call[w].target>> \notin circle_membership)
             => Fails(call[w], 400, "Not a member of this circle")
       /\ (response'.call.op = "leave_circle" /\ response'.status = 200)
          => /\ <<response'.call.caller, response'.call.target>> \in circle_membership
             /\ <<response'.call.caller, response'.call.target>> \notin circle_membership']_vars

(* C26: update_circle answers 404 for a missing circle and 403 for a       *)
(* caller who is not the owner and changes nothing then; when it answers   *)
(* 200 the fields of the circle that are not in the patch are as they      *)
(* were, no other circle has changed, and the memberships are as they      *)
(* were; any other answer leaves the circles as they were.                 *)
C26_UpdateFrame ==
    [][/\ (Taken /\ TakenCall.op = "update_circle")
          => LET c == TakenCall
                 rows == {x \in circles : x.id = c.target}
             IN /\ rows = {} => Fails(c, 404, "Circle not found")
                /\ \A x \in rows :
                      x.owner # c.caller
                      => Fails(c, 403, "Only the circle owner can update the circle")
       /\ (response'.call.op = "update_circle" /\ response'.status = 200)
          => /\ circle_membership' = circle_membership
             /\ {x.id : x \in circles'} = {x.id : x \in circles}
             /\ \A x \in circles, y \in circles' :
                   y.id = x.id
                   => IF x.id = response'.call.target
                        THEN \A f \in DOMAIN x \ DOMAIN response'.call.patch : y[f] = x[f]
                        ELSE y = x
       /\ (response'.call.op = "update_circle" /\ response'.status # 200)
          => circles' = circles /\ circle_membership' = circle_membership]_vars

C26_Witness ==
    /\ response.call.op = "update_circle"
    /\ response.status = 200
    /\ DOMAIN response.call.patch = {"public"}
    /\ \E x \in circles :
          /\ x.id = response.call.target
          /\ x.public = response.call.patch.public
          /\ x.name \in NewNames
          /\ x.owner = response.call.caller

(* C27: no step changes the owner of a circle that exists before and       *)
(* after it, and every circle row has one owner, a user: there is one row  *)
(* per circle id.                                                          *)
C27_OwnerFixed ==
    [][/\ \A x \in circles, y \in circles' : y.id = x.id => y.owner = x.owner
       /\ \A x \in circles', y \in circles' : x.id = y.id => x = y
       /\ \A x \in circles' : x.owner \in Users]_vars

C27_Witness ==
    /\ response.call.op = "update_circle"
    /\ response.status = 200
    /\ "name" \in DOMAIN response.call.patch
    /\ \E x \in circles :
          /\ x.id = response.call.target
          /\ x.name = response.call.patch.name
          /\ x.name \notin NewNames
          /\ x.owner = response.call.caller
    /\ \E m \in circle_membership : m[2] = response.call.target

(* C28: a create_event with end_at after start_at stores an event whose    *)
(* state is upcoming when start_at is later than now and passed otherwise, *)
(* and the stored state of an event changes only by an update_event that   *)
(* provides a state.                                                       *)
C28_CreateState ==
    [][/\ CreateAnswered
          => \E e \in events' \ events :
                e.state = IF response'.call.patch.start_at > now
                            THEN "upcoming" ELSE "passed"
       /\ \A x \in events, y \in events' :
             (y.id = x.id /\ y.state # x.state)
             => /\ response'.call.op = "update_event"
                /\ response'.status = 200
                /\ "state" \in DOMAIN response'.call.patch
                /\ response'.call.patch.state = y.state]_vars

C30_DeleteEvent ==
    [][response'.call.op = "delete_event"
       => /\ response'.status = 200
             => /\ \A e \in events' : e.id # response'.call.target
                /\ \A o \in event_ownership' : o[2] # response'.call.target
          /\ response'.status = 404 => event_get_by_id(response'.call.target) = {}
          /\ response'.status = 403
             => <<response'.call.caller, response'.call.target>> \notin event_ownership]_vars

(* C31: at most one friend request row per ordered (outgoing, incoming)    *)
(* pair, one membership row per (user, circle) and one ownership row per   *)
(* (user, event): a creating request that answers success has inserted a   *)
(* row of a pair that had none, whatever the interleaving.                 *)
C31_OneRowPerPair ==
    [][/\ \A r1 \in friend_requests', r2 \in friend_requests' :
             (/\ r1.outgoing_user_id = r2.outgoing_user_id
              /\ r1.incoming_user_id = r2.incoming_user_id) => r1 = r2
       /\ (response'.call.op = "create_friend_request" /\ response'.status = 201)
          => ~\E r \in friend_requests :
                 /\ r.outgoing_user_id = response'.call.caller
                 /\ r.incoming_user_id = response'.call.target
       /\ (response'.call.op = "join_circle" /\ response'.status = 200)
          => /\ <<response'.call.caller, response'.call.target>> \notin circle_membership
             /\ <<response'.call.caller, response'.call.target>> \in circle_membership'
       /\ (response'.call.op = "add_member_to_circle" /\ response'.status = 200)
          => /\ <<response'.call.user, response'.call.target>> \notin circle_membership
             /\ <<response'.call.user, response'.call.target>> \in circle_membership'
       /\ Cardinality(circle_membership') <= Cardinality(circle_membership) + 1
       /\ event_ownership' \subseteq event_ownership]_vars

C31_Witness ==
    /\ response.call.op = "create_friend_request"
    /\ response.status = 500
    /\ response.detail = "unique_friend_request"
    /\ Cardinality({r \in friend_requests :
                       /\ r.outgoing_user_id = response.call.caller
                       /\ r.incoming_user_id = response.call.target}) = 1

CircleTargetOps == {"update_circle", "delete_circle", "add_member_to_circle", "kick_member"}
RequestTargetOps == {"reject_friend_request", "cancel_friend_request"}

(* the row a call names is in its table *)
TargetExists(c) ==
    IF c.op \in CircleTargetOps THEN circle_get_by_id(c.target) # {}
    ELSE IF c.op \in EventOps THEN event_get_by_id(c.target) # {}
    ELSE get_by_id(c.target) # {}

C33_PendingLists ==
    [][/\ \A u \in Users :
             /\ get_incoming_requests(u)' =
                   {r \in friend_requests' :
                       r.incoming_user_id = u /\ r.status = "pending"}
             /\ get_outgoing_requests(u)' =
                   {r \in friend_requests' :
                       r.outgoing_user_id = u /\ r.status = "pending"}
       /\ \A r \in friend_requests :
             (r.status = "pending" /\ r \notin friend_requests')
             => \A u \in Users :
                   \A q \in get_incoming_requests(u)' \cup get_outgoing_requests(u)' :
                      q.id # r.id]_vars

C33_Witness ==
    /\ response.call.op = "reject_friend_request"
    /\ response.status = 200
    /\ \E r \in friend_requests :
          /\ r.id = response.call.target
          /\ r.status = "rejected"
          /\ r.incoming_user_id = response.call.caller
          /\ r \notin get_incoming_requests(r.incoming_user_id)
          /\ r \notin get_outgoing_requests(r.outgoing_user_id)
    /\ \E q \in friend_requests : q.status = "pending"

(* C34: a create_friend_request from a to b that has passed its checks    *)
(* (no friendship, no pending request read in either direction) while a    *)
(* row a -> b with a status other than pending is stored answers 201 and   *)
(* leaves a pending request a -> b.                                        *)
C34_ResendAfterClosed ==
    [][\A w \in Workers :
          (/\ pc[w] = "create_request" /\ pc'[w] = "idle"
           /\ \E r \in friend_requests :
                 /\ r.outgoing_user_id = call[w].caller
                 /\ r.incoming_user_id = call[w].target
                 /\ r.status # "pending")
          => /\ response'.status = 201
             /\ \E r \in friend_requests' :
                   /\ r.outgoing_user_id = call[w].caller
                   /\ r.incoming_user_id = call[w].target
                   /\ r.status = "pending"]_vars

(* C35: of an accept and a cancel or reject of one pending request at most *)
(* one succeeds: an accept_friend_request that answers 200 leaves the      *)
(* request row of its sender stored with status accepted, and a cancel or  *)
(* reject that answers 200 leaves the two users of its request row not     *)
(* friends.                                                                *)
C35_AcceptVersusClose ==
    [][/\ (response'.call.op = "accept_friend_request" /\ response'.status = 200)
          => \E r \in friend_requests' :
                /\ r.outgoing_user_id = response'.call.target
                /\ r.incoming_user_id = response'.call.caller
                /\ r.status = "accepted"
       /\ (/\ response'.call.op \in {"cancel_friend_request", "reject_friend_request"}
           /\ response'.status = 200)
          => \A r \in friend_requests :
                r.id = response'.call.target
                => /\ <<r.outgoing_user_id, r.incoming_user_id>> \notin friends'
                   /\ <<r.incoming_user_id, r.outgoing_user_id>> \notin friends']_vars

(* C36: of two removals of one membership at most one succeeds: a          *)
(* leave_circle or kick_member that answers 200 has, in the step that      *)
(* answers, removed a membership row (user, circle) that was stored.       *)
C36_ConcurrentRemovals ==
    [][(/\ response'.call.op \in {"leave_circle", "kick_member"}
        /\ response'.status = 200)
       => \E m \in circle_membership \ circle_membership' :
             /\ m[2] = response'.call.target
             /\ m[1] = IF response'.call.op = "leave_circle"
                         THEN response'.call.caller ELSE response'.call.user]_vars

(* C37: every membership row is of a stored circle and every ownership     *)
(* row of a stored event, and a circle row that a step inserts has no      *)
(* membership row from before: its members are added after it, starting    *)
(* with its creator, also when its id was in use earlier.                  *)
C37_NoLeakAcrossLifetimes ==
    [][/\ \A m \in circle_membership' : \E x \in circles' : x.id = m[2]
       /\ \A o \in event_ownership' : \E e \in events' : e.id = o[2]
       /\ \A x \in circles' :
             (\A y \in circles : y.id # x.id)
             => \A m \in circle_membership' : m[2] # x.id]_vars

(* C38: an update_event that answers 403 or 400 leaves every stored event  *)
(* as it was, and a stored event changes only in the step of an            *)
(* update_event that answers 200.                                          *)
C38_FailedUpdateWritesNothing ==
    [][/\ (response'.call.op = "update_event" /\ response'.status \in {400, 403})
          => /\ events' = events
             /\ UNCHANGED storeVars
       /\ \A x \in events, y \in events' :
             (y.id = x.id /\ y # x)
             => (response'.call.op = "update_event" /\ response'.status = 200)]_vars

C38_Witness ==
    /\ response.call.op = "update_event"
    /\ response.status = 400
    /\ response.detail = "Event end time must be after start time"
    /\ "state" \in DOMAIN response.call.patch
    /\ \E y \in events :
          /\ y.id = response.call.target
          /\ y \in EventRows
          /\ y.state # response.call.patch.state

(* C39: the step that makes a circle private leaves the memberships as     *)
(* they were, and a step that inserts a membership row of a circle that    *)
(* is stored as private is a step of add_member_to_circle called by the    *)
(* owner of that circle, or the step of a create_circle that adds its      *)
(* creator.                                                                *)
C39_PrivateStaysClosed ==
    [][/\ \A x \in circles, y \in circles' :
             (y.id = x.id /\ x.public /\ ~y.public)
             => circle_membership' = circle_membership
       /\ \A m \in circle_membership' \ circle_membership :
             \A x \in circles :
                (x.id = m[2] /\ ~x.public)
                => \E w \in Workers :
                      /\ pc[w] # "idle" /\ pc'[w] = "idle"
                      /\ \/ /\ call[w].op = "add_member_to_circle"
                            /\ call[w].target = x.id
                            /\ call[w].caller = x.owner
                            /\ call[w].user = m[1]
                         \/ /\ call[w].op = "create_circle"
                            /\ call[w].caller = m[1]]_vars

====
